---------------------------- MODULE Spec2Model ----------------------------
(***************************************************************************)
(* Regulatory impact analyzer (PolicyPulse): the concurrent extraction and *)
(* analysis pipeline.                                                      *)
(*                                                                         *)
(*   SpecGateway   one invocation of call_bedrock, attempt by attempt, for *)
(*                 each of the four implementations of the repository      *)
(*   Spec          the dashboard: process_upload, the validation gate,     *)
(*                 analyze_regulation_with_bedrock and its thread pool     *)
(*   SpecExtract   extract_all_10k / process_single_10k and the shared     *)
(*                 progress counters                                       *)
(*   SpecAnalysis  run_full_analysis of the command line analyzer          *)
(***************************************************************************)
EXTENDS Integers, Sequences, FiniteSets, TLC

(***************************************************************************)
(* Program constants and model bounds                                      *)
(***************************************************************************)

\* extraction_mod/extract_10k_v2.py: MAX_RETRIES = 3
MAX_RETRIES_extract_10k_v2 == 3

\* extraction_mod/extract_10k.py: MAX_RETRIES = 2 (default of max_retries)
MAX_RETRIES_extract_10k == 2

\* app/run_analysis.py: MAX_RETRIES = 2
MAX_RETRIES_run_analysis == 2

\* dashboard/app.py: for attempt in range(2)
APP_ATTEMPTS == 2

(***************************************************************************)
(* LLM gateway: call_bedrock                                               *)
(*                                                                         *)
(* What one attempt can meet:                                              *)
(*   transport     invoke_model raises (network, service error)            *)
(*   throttle      invoke_model raises an error whose text has 'throttl'   *)
(*   bad_body      the service response body is not decodable JSON         *)
(*                 (json.loads(response['body'].read()) raises)            *)
(*   bad_text      the completion text is not JSON after fence-stripping   *)
(*   ok            the completion decodes to a well-formed non-empty       *)
(*                 object                                                  *)
(*   ok_empty      the completion decodes to a falsy value ({}, [], 0)     *)
(*   ok_malformed  the completion decodes to a truthy value of the wrong   *)
(*                 shape (an array, a section that is null, a score that   *)
(*                 is a string): code that uses it raises                  *)
(***************************************************************************)

Variants == {"app", "run_analysis", "extract_10k", "extract_10k_v2"}

Failures == {"transport", "throttle", "bad_body", "bad_text"}

Decoded == {"ok", "ok_empty", "ok_malformed"}

GatewayOutcomes == Failures \cup Decoded

\* Mutation of MaxAttempts: the loop runs once more than the budget
\* (range(MAX_RETRIES + 1)).
MaxAttempts_OneMore(v) ==
    CASE v = "app" -> APP_ATTEMPTS + 1
      [] v = "run_analysis" -> MAX_RETRIES_run_analysis + 1
      [] v = "extract_10k" -> MAX_RETRIES_extract_10k + 1
      [] v = "extract_10k_v2" -> MAX_RETRIES_extract_10k_v2 + 1

\* the bound of the for loop of each call_bedrock
MaxAttempts(v) ==
    CASE v = "app" -> APP_ATTEMPTS
      [] v = "run_analysis" -> MAX_RETRIES_run_analysis
      [] v = "extract_10k" -> MAX_RETRIES_extract_10k
      [] v = "extract_10k_v2" -> MAX_RETRIES_extract_10k_v2

\* The value json.loads yields for a decoded completion.
DecodedValue(o) ==
    CASE o = "ok" -> "record"
      [] o = "ok_empty" -> "empty"
      [] o = "ok_malformed" -> "malformed"

\* normalize_structure on a decoded value, as far as call_bedrock of
\* extract_10k_v2 depends on it: every key is read with .get and a default,
\* so the empty object comes out as a full (truthy) dictionary of defaults;
\* a value without .get, or a section that is not a mapping, raises.
NormalizeRaises(d) == d = "malformed"

NormalizeValue(d) == "record"

\* a call_bedrock invocation that has not sent anything yet
NewCall(v) ==
    [variant |-> v, attempt |-> 0, requests |-> 0, text_bound |-> FALSE,
     state |-> "running", result |-> "none"]

\* Mutation of HandleAttempt: an undecodable completion is not retried, the
\* JSONDecodeError handler returns None at once.
HandleAttempt_JsonNotRetried(c, o) ==
    LET last == ~(c.attempt < MaxAttempts(c.variant) - 1) IN
    IF o \in Decoded /\ ~(c.variant = "extract_10k_v2" /\ o = "ok_malformed")
    THEN "return"
    ELSE IF o = "bad_text" \/ last THEN "none" ELSE "continue"

\* What the body of the loop decides for outcome o in iteration c.attempt:
\* "return" (a result), "continue", "none" (return None), "raise".
HandleAttempt(c, o) ==
    LET last == ~(c.attempt < MaxAttempts(c.variant) - 1) IN
    CASE c.variant = "app" ->
           IF o \in Decoded THEN "return"
           ELSE IF o = "bad_body" /\ ~c.text_bound
                THEN "raise"   \* the handler prints response_text, unbound
                ELSE IF last THEN "none" ELSE "continue"
      [] c.variant = "run_analysis" ->
           IF o \in Decoded THEN "return"
           ELSE IF last THEN "none" ELSE "continue"
      [] c.variant = "extract_10k" ->
           IF o \in Decoded THEN "return"
           ELSE IF last THEN "none" ELSE "continue"
      [] c.variant = "extract_10k_v2" ->
           IF o \in Decoded /\ ~NormalizeRaises(DecodedValue(o)) THEN "return"
           ELSE IF last THEN "none" ELSE "continue"

\* The value a returning attempt hands to the caller.
ReturnedValue(c, o) ==
    IF c.variant = "extract_10k_v2"
    THEN NormalizeValue(DecodedValue(o))
    ELSE DecodedValue(o)

\* One iteration of the for loop of call_bedrock: one invoke_model request,
\* then the try body or the handler that outcome o selects.  A "continue" in
\* the last iteration leaves the loop and reaches the final return None.
GatewayStep(c, o) ==
    LET h == HandleAttempt(c, o)
        sent == [c EXCEPT !.requests = c.requests + 1,
                          !.text_bound = c.text_bound \/ o \in Decoded \cup {"bad_text"}]
    IN CASE h = "return" ->
              [sent EXCEPT !.state = "returned", !.result = ReturnedValue(c, o)]
         [] h = "none" ->
              [sent EXCEPT !.state = "returned", !.result = "none"]
         [] h = "raise" ->
              [sent EXCEPT !.state = "raised", !.result = "UnboundLocalError"]
         [] h = "continue" ->
              IF c.attempt + 1 < MaxAttempts(c.variant)
              THEN [sent EXCEPT !.attempt = c.attempt + 1]
              ELSE [sent EXCEPT !.state = "returned", !.result = "none"]

VARIABLES
    gw,                 \* the call_bedrock invocation under study (SpecGateway)
    gw_hist,            \* what each of its attempts met, in order
    BEDROCK_AVAILABLE,  \* dashboard/app.py: whether the client was constructed
    ui,                 \* process_upload: position, locals and returned outputs
    company_file,       \* what load_company_data found on disk
    futures,            \* the futures of the batch: state, gateway call, outcome
    results,            \* the results list of the runner
    completed,          \* the completed counter of analyze_regulation_with_bedrock
    yielded,            \* the futures as_completed has handed to the loop
    runner,             \* position of the thread that runs the batch
    version,            \* which extraction script runs (SpecExtract)
    progress,           \* extract_10k_v2: the shared dict {'success', 'failed'}
    loaded,             \* per task, the counter value its `+= 1` has read
    output_file,        \* OUTPUT_FILE of the script that runs
    rfa,                \* run_full_analysis: position, inputs, loop index
    call_args,          \* the arguments of the function under study
    call_ret            \* how its call ended, and the value it returned

gwvars == <<gw, gw_hist>>

uivars == <<BEDROCK_AVAILABLE, ui, company_file>>

poolvars == <<futures, results, completed, yielded, runner>>

exvars == <<version, progress, loaded>>

rfavars == <<output_file, rfa>>

fnvars == <<call_args, call_ret>>

vars == <<gwvars, uivars, poolvars, exvars, rfavars, fnvars>>

(***************************************************************************)
(* Bounds of the model.  The pool of the source has 50 (dashboard) or 5    *)
(* (extraction, analysis) workers; the model keeps fewer workers than      *)
(* tasks so that tasks queue behind a full pool.                           *)
(***************************************************************************)

NumTasks == 3

MAX_WORKERS == 2

Tasks == 1..NumTasks

(***************************************************************************)
(* SpecGateway: one invocation of call_bedrock                             *)
(***************************************************************************)

GwIdle == [variant |-> "none", attempt |-> 0, requests |-> 0, text_bound |-> FALSE,
           state |-> "idle", result |-> "none"]

GwInit == gw = GwIdle /\ gw_hist = <<>>

\* a future that was never submitted
NotSubmitted == [state |-> "none", call |-> GwIdle, ret |-> "-"]

PoolInit ==
    /\ futures = [t \in Tasks |-> NotSubmitted]
    /\ results = <<>>
    /\ completed = 0
    /\ yielded = {}
    /\ runner = "idle"

UiIdle == [pc |-> "idle", text |-> [len |-> 0, kw |-> 0], valid |-> FALSE,
           status |-> "-", data |-> "-", rows |-> 0, mode |-> "-",
           simulated |-> FALSE, sectors |-> {},
           progress_data |-> [step |-> "-", completed |-> 0, total |-> 0]]

UiInit ==
    /\ ui = UiIdle
    /\ company_file = "unread"

NoFile == [written |-> FALSE, content |-> <<>>]

ExInit ==
    /\ version = "-"
    /\ progress = [success |-> 0, failed |-> 0]
    /\ loaded = [t \in Tasks |-> 0]

RfaIdle ==
    [pc |-> "idle", companies |-> <<>>, risk_scores |-> {}, regulations |-> 0, i |-> 1,
     summary |-> {}]

\* no function is under study
NoCall == [kind |-> "none", value |-> "-"]

FnIdle == call_args = "-" /\ call_ret = NoCall

RfaInit ==
    /\ output_file = NoFile
    /\ rfa = RfaIdle

\* a caller invokes call_bedrock(prompt) of one of the four files
GwCall ==
    /\ gw.state = "idle"
    /\ \E v \in Variants : gw' = NewCall(v)
    /\ gw_hist' = <<>>
    /\ UNCHANGED <<fnvars, uivars, poolvars, exvars, rfavars>>

\* one attempt of the invocation
GwAttempt ==
    /\ gw.state = "running"
    /\ \E o \in GatewayOutcomes :
         /\ gw' = GatewayStep(gw, o)
         /\ gw_hist' = Append(gw_hist, o)
    /\ UNCHANGED <<fnvars, uivars, poolvars, exvars, rfavars>>

GwNext == GwCall \/ GwAttempt

\* the scripts' start: nothing called yet, the client constructed
ScriptInit ==
    /\ GwInit /\ UiInit /\ PoolInit /\ ExInit /\ RfaInit /\ FnIdle
    /\ BEDROCK_AVAILABLE = TRUE

SpecGateway == ScriptInit /\ [][GwNext]_vars

(***************************************************************************)
(* Spec: the dashboard.  process_upload parses and validates the uploaded  *)
(* document, then runs analyze_regulation_with_bedrock: one task per       *)
(* company on a ThreadPoolExecutor, collected with as_completed.           *)
(***************************************************************************)

\* dashboard/config.py
MIN_DOCUMENT_LENGTH == 50

MIN_KEYWORD_MATCHES == 1

\* the companies of the simulated analysis (analyze_regulatory_impact)
SIM_COMPANIES == 20

\* An extracted text, by what the validation gate reads of it: its length
\* and the number of keywords of REGULATORY_KEYWORDS that occur in it.
Texts ==
    { [len |-> 0, kw |-> 0], [len |-> 40, kw |-> 1], [len |-> 49, kw |-> 2],
      [len |-> 50, kw |-> 0], [len |-> 50, kw |-> 1] }

\* regulatory_utils.validate_regulatory_document, the is_valid it returns
validate_regulatory_document(text) ==
    IF text.len = 0 \/ text.len < MIN_DOCUMENT_LENGTH
    THEN FALSE
    ELSE IF text.kw < MIN_KEYWORD_MATCHES THEN FALSE ELSE TRUE

\* regulatory_utils.load_company_data: the companies it returns for what is
\* on disk; a file that is not found, or that cannot be read or decoded,
\* gives the empty list
load_company_data(f) == IF f = "ok" THEN Tasks ELSE {}

\* the tasks a worker of the pool is executing
Running == {t \in Tasks : futures[t].state \in {"running", "counting", "storing"}}

Finished == {t \in Tasks : futures[t].state = "finished"}

Pending == {t \in Tasks : futures[t].state = "pending"}

\* What analyze_company_regulation_pair (dashboard) makes of a finished
\* call_bedrock: the exception goes through; `if analysis:` drops None and
\* every other falsy value; building the record raises on a value of the
\* wrong shape (round() of a non-number, .get of a non-mapping).
PairResult(c) ==
    IF c.state = "raised" THEN "raise"
    ELSE IF c.result \in {"none", "empty"} THEN "None"
    ELSE IF c.result = "malformed" THEN "raise"
    ELSE "record"

\* The tail of process_upload: the progress is finalised and the outputs
\* are returned with the success status.
Finalize(u, d, n, m) ==
    [u EXCEPT !.pc = "done", !.status = "success", !.data = d, !.rows = n,
              !.mode = m, !.simulated = (d = "simulated"),
              !.progress_data = [step |-> "completed", completed |-> n, total |-> n]]

\* process_upload: the document is parsed to a text
PU_Parse ==
    /\ ui.pc = "idle"
    /\ \E txt \in Texts : ui' = [ui EXCEPT !.pc = "validate", !.text = txt]
    /\ UNCHANGED <<fnvars, BEDROCK_AVAILABLE, company_file, gwvars, exvars, rfavars, poolvars>>

\* Mutation of PU_Validate: the early return of the rejected branch is
\* missing, the callback goes on to the analysis.
PU_Validate_NoEarlyReturn ==
    /\ ui.pc = "validate"
    /\ ui' = [ui EXCEPT !.pc = "dispatch",
                        !.valid = validate_regulatory_document(ui.text),
                        !.progress_data = [step |-> "parsing", completed |-> 0, total |-> 0]]
    /\ UNCHANGED <<fnvars, BEDROCK_AVAILABLE, company_file, gwvars, exvars, rfavars, poolvars>>

\* process_upload: the validation gate; a rejected document ends the
\* callback with the error message and no data
PU_Validate ==
    /\ ui.pc = "validate"
    /\ ui' = IF validate_regulatory_document(ui.text)
             THEN [ui EXCEPT !.pc = "dispatch", !.valid = TRUE,
                             !.progress_data = [step |-> "parsing", completed |-> 0, total |-> 0]]
             ELSE [ui EXCEPT !.pc = "done", !.valid = FALSE,
                             !.status = "rejected", !.data = "None"]
    /\ UNCHANGED <<fnvars, BEDROCK_AVAILABLE, company_file, gwvars, exvars, rfavars, poolvars>>

\* process_upload: the real analysis when the client exists, else the
\* simulated one
PU_Dispatch ==
    /\ ui.pc = "dispatch"
    /\ IF BEDROCK_AVAILABLE
       THEN /\ ui' = [ui EXCEPT !.pc = "analyzing"]
            /\ runner' = "load"
       ELSE /\ ui' = Finalize(ui, "simulated", SIM_COMPANIES, "simulation")
            /\ UNCHANGED runner
    /\ UNCHANGED <<fnvars, BEDROCK_AVAILABLE, company_file, gwvars, exvars, rfavars, futures, results,
                   completed, yielded>>

\* analyze_regulation_with_bedrock: the companies are loaded; none gives
\* the empty result at once, else every task is submitted to the pool
RunnerLoad ==
    /\ runner = "load"
    /\ \E f \in {"missing", "unreadable", "empty", "ok"} :
         /\ company_file' = f
         /\ IF load_company_data(f) = {}
            THEN /\ runner' = "returned"
                 /\ UNCHANGED futures
            ELSE /\ runner' = "collecting"
                 /\ futures' = [t \in Tasks |->
                                  IF t \in load_company_data(f)
                                  THEN [NotSubmitted EXCEPT !.state = "pending"]
                                  ELSE NotSubmitted]
    /\ results' = <<>>
    /\ completed' = 0
    /\ yielded' = {}
    /\ UNCHANGED <<fnvars, BEDROCK_AVAILABLE, ui, gwvars, exvars, rfavars>>

\* Mutation of TaskStart: one thread per task, no bound on the workers.
TaskStart_Unbounded(t) ==
    /\ runner \in {"collecting", "unwinding"}
    /\ futures[t].state = "pending"
    /\ \E formats \in BOOLEAN :
         futures' = [futures EXCEPT ![t] =
                       IF formats
                       THEN [state |-> "running", call |-> NewCall("app"), ret |-> "-"]
                       ELSE [state |-> "finished", call |-> GwIdle, ret |-> "raise"]]
    /\ UNCHANGED <<fnvars, uivars, gwvars, exvars, rfavars, results, completed, yielded, runner>>

\* A worker of the pool takes a pending task: analyze_company_regulation_pair
\* formats the profile and the prompt (which raises on a profile of the
\* wrong shape) and enters call_bedrock.
TaskStart(t) ==
    /\ runner \in {"collecting", "unwinding"}
    /\ futures[t].state = "pending"
    /\ Cardinality(Running) < MAX_WORKERS
    /\ \E formats \in BOOLEAN :
         futures' = [futures EXCEPT ![t] =
                       IF formats
                       THEN [state |-> "running", call |-> NewCall("app"), ret |-> "-"]
                       ELSE [state |-> "finished", call |-> GwIdle, ret |-> "raise"]]
    /\ UNCHANGED <<fnvars, uivars, gwvars, exvars, rfavars, results, completed, yielded, runner>>

\* One attempt of the task's call_bedrock; when the call ends, the rest of
\* analyze_company_regulation_pair sets the future's outcome.
TaskAttempt(t) ==
    /\ futures[t].state = "running"
    /\ \E o \in GatewayOutcomes :
         LET c == GatewayStep(futures[t].call, o) IN
         futures' = [futures EXCEPT ![t] =
                       IF c.state = "running"
                       THEN [state |-> "running", call |-> c, ret |-> "-"]
                       ELSE [state |-> "finished", call |-> c, ret |-> PairResult(c)]]
    /\ UNCHANGED <<fnvars, uivars, gwvars, exvars, rfavars, results, completed, yielded, runner>>

\* One iteration of `for future in as_completed(futures)`: future.result()
\* returns the record or None, or re-raises the task's exception, which
\* leaves the loop and the with block.
Collect ==
    /\ runner = "collecting"
    /\ \E t \in Finished \ yielded :
         /\ yielded' = yielded \cup {t}
         /\ IF futures[t].ret = "raise"
            THEN /\ runner' = "unwinding"
                 /\ UNCHANGED <<results, completed, ui>>
            ELSE /\ results' = IF futures[t].ret = "record"
                               THEN Append(results, t) ELSE results
                 /\ completed' = completed + 1
                 /\ ui' = [ui EXCEPT !.progress_data =
                             [step |-> "analyzing", completed |-> completed + 1,
                              total |-> Cardinality(load_company_data(company_file))]]
                 /\ UNCHANGED runner
    /\ UNCHANGED <<fnvars, BEDROCK_AVAILABLE, company_file, gwvars, exvars, rfavars, futures>>

\* Mutation of RunnerReturn: the loop is left after any completion, the
\* tasks not yet taken are left out of the returned list.
RunnerReturn_Early ==
    /\ runner = "collecting"
    /\ yielded # {}
    /\ runner' = "returned"
    /\ UNCHANGED <<fnvars, uivars, gwvars, exvars, rfavars, futures, results, completed, yielded>>

\* the loop is exhausted, the with block ends, the results are returned
RunnerReturn ==
    /\ runner = "collecting"
    /\ yielded = load_company_data(company_file)
    /\ runner' = "returned"
    /\ UNCHANGED <<fnvars, uivars, gwvars, exvars, rfavars, futures, results, completed, yielded>>

\* Mutation of RunnerUnwind: the exception leaves the function without
\* waiting for the pool.
RunnerUnwind_NoWait ==
    /\ runner = "unwinding"
    /\ runner' = "raised"
    /\ UNCHANGED <<fnvars, uivars, gwvars, exvars, rfavars, futures, results, completed, yielded>>

\* The with block is left by an exception: shutdown(wait=True) waits for
\* every submitted task, then the exception leaves the function.
RunnerUnwind ==
    /\ runner = "unwinding"
    /\ \A t \in load_company_data(company_file) : futures[t].state = "finished"
    /\ runner' = "raised"
    /\ UNCHANGED <<fnvars, uivars, gwvars, exvars, rfavars, futures, results, completed, yielded>>

\* Mutation of PU_AfterAnalysis: an empty result list is shown as it is,
\* without the fallback to the simulated analysis.
PU_AfterAnalysis_NoFallback ==
    /\ ui.pc = "analyzing"
    /\ runner \in {"returned", "raised"}
    /\ ui' = IF runner = "returned"
             THEN Finalize(ui, "realtime", Len(results), "realtime")
             ELSE Finalize(ui, "simulated", SIM_COMPANIES, "simulation_error")
    /\ UNCHANGED <<fnvars, BEDROCK_AVAILABLE, company_file, gwvars, exvars, rfavars, poolvars>>

\* The sector_industry values the records of the company file can carry:
\* None for a null in the file, else a name.
SectorValues == {"None", "Tech", "Finance"}

\* sorted(df_results['sector'].unique()): None and a name do not compare,
\* the call raises TypeError after the progress was finalised and outside
\* the try block, so the callback returns no output.
SectorOptions(u, secs) ==
    IF "None" \in secs /\ secs # {"None"}
    THEN [u EXCEPT !.pc = "raised", !.status = "TypeError", !.data = "None",
                   !.sectors = secs]
    ELSE [u EXCEPT !.sectors = secs]

\* process_upload after the analysis: the results when there are some, the
\* simulated analysis when there are none or when the analysis raised;
\* the sector options are built from the sectors of the real-time records
PU_AfterAnalysis ==
    /\ ui.pc = "analyzing"
    /\ runner \in {"returned", "raised"}
    /\ IF runner = "returned" /\ Len(results) > 0
       THEN \E secs \in SUBSET SectorValues :
               /\ secs # {}
               /\ Cardinality(secs) <= Len(results)
               /\ ui' = SectorOptions(Finalize(ui, "realtime", Len(results), "realtime"),
                                      secs)
       ELSE IF runner = "returned"
            THEN ui' = Finalize(ui, "simulated", SIM_COMPANIES, "simulation_no_results")
            ELSE ui' = Finalize(ui, "simulated", SIM_COMPANIES, "simulation_error")
    /\ UNCHANGED <<fnvars, BEDROCK_AVAILABLE, company_file, gwvars, exvars, rfavars, poolvars>>

Init ==
    /\ GwInit /\ UiInit /\ PoolInit /\ ExInit /\ RfaInit /\ FnIdle
    /\ BEDROCK_AVAILABLE \in BOOLEAN

Next ==
    \/ PU_Parse
    \/ PU_Validate
    \/ PU_Dispatch
    \/ RunnerLoad
    \/ \E t \in Tasks : TaskStart(t)
    \/ \E t \in Tasks : TaskAttempt(t)
    \/ Collect
    \/ RunnerReturn
    \/ RunnerUnwind
    \/ PU_AfterAnalysis

Spec == Init /\ [][Next]_vars

(***************************************************************************)
(* SpecExtract: extract_all_10k of extract_10k.py and of extract_10k_v2.py *)
(* One process_single_10k task per filing on a ThreadPoolExecutor.  The v2 *)
(* tasks count themselves in the dict `progress`, which every worker       *)
(* thread shares and updates with `progress[key] += 1`, without a lock:    *)
(* the read and the write of that statement are separate steps.            *)
(***************************************************************************)

Versions == {"extract_10k", "extract_10k_v2"}

\* EXTRACTION_PROMPT.format(...): the template of extract_10k_v2 shows its
\* JSON example in single braces, which str.format reads as replacement
\* fields, so the call raises KeyError for every content; the template of
\* extract_10k has the two fields {schema} and {content} only.
FormatPromptRaises(v) == v = "extract_10k_v2"

\* `if data:` of process_single_10k
Truthy(d) == d \in {"record", "malformed"}

\* the counter a v2 task increments for the result it is about to return
CounterKey(ret) == IF ret = "success" THEN "success" ELSE "failed"

\* The state a task takes when process_single_10k has chosen its result:
\* v2 has the counter to increment first, v1 returns.
Outcome(v, c, ret) ==
    [state |-> IF v = "extract_10k_v2" THEN "counting" ELSE "finished",
     call |-> c, ret |-> ret]

\* extract_all_10k up to the submission of every file to the pool
EX_Start ==
    /\ runner = "idle"
    /\ \E v \in Versions : version' = v
    /\ futures' = [t \in Tasks |-> [NotSubmitted EXCEPT !.state = "pending"]]
    /\ progress' = [success |-> 0, failed |-> 0]
    /\ results' = <<>>
    /\ yielded' = {}
    /\ runner' = "collecting"
    /\ UNCHANGED <<fnvars, gwvars, uivars, rfavars, completed, loaded>>

\* A worker takes a pending file: process_single_10k extracts the text
\* (empty when nothing could be read), formats the prompt and enters
\* call_bedrock; an exception on the way is caught and makes the error
\* result.
EX_TaskStart(t) ==
    /\ runner = "collecting"
    /\ futures[t].state = "pending"
    /\ Cardinality(Running) < MAX_WORKERS
    /\ \E text \in {"text", "empty"} :
         futures' = [futures EXCEPT ![t] =
                       IF text = "empty"
                       THEN Outcome(version, GwIdle, "error_empty")
                       ELSE IF FormatPromptRaises(version)
                            THEN Outcome(version, GwIdle, "error_exception")
                            ELSE [state |-> "running", call |-> NewCall(version),
                                  ret |-> "-"]]
    /\ UNCHANGED <<fnvars, gwvars, uivars, rfavars, exvars, results, completed, yielded, runner>>

\* one attempt of the task's call_bedrock; when the call ends, `if data:`
\* chooses the success record or the error result
EX_TaskAttempt(t) ==
    /\ futures[t].state = "running"
    /\ futures[t].call.variant \in Versions
    /\ \E o \in GatewayOutcomes :
         LET c == GatewayStep(futures[t].call, o) IN
         futures' = [futures EXCEPT ![t] =
                       IF c.state = "running"
                       THEN [state |-> "running", call |-> c, ret |-> "-"]
                       ELSE Outcome(version, c,
                                    IF Truthy(c.result) THEN "success" ELSE "error_bedrock")]
    /\ UNCHANGED <<fnvars, gwvars, uivars, rfavars, exvars, results, completed, yielded, runner>>

\* progress[key] += 1, first half: the current value is read
EX_ReadCounter(t) ==
    /\ futures[t].state = "counting"
    /\ loaded' = [loaded EXCEPT ![t] = progress[CounterKey(futures[t].ret)]]
    /\ futures' = [futures EXCEPT ![t].state = "storing"]
    /\ UNCHANGED <<fnvars, gwvars, uivars, rfavars, version, progress, results, completed,
                   yielded, runner>>

\* progress[key] += 1, second half: the value read plus one is stored, and
\* the task returns its result
EX_WriteCounter(t) ==
    /\ futures[t].state = "storing"
    /\ progress' = [progress EXCEPT ![CounterKey(futures[t].ret)] = loaded[t] + 1]
    /\ futures' = [futures EXCEPT ![t].state = "finished"]
    /\ UNCHANGED <<fnvars, gwvars, uivars, rfavars, version, loaded, results, completed,
                   yielded, runner>>

\* Mutation of EX_Collect: a failed file leaves no record in the list.
EX_Collect_SkipsErrors ==
    /\ runner = "collecting"
    /\ version \in Versions
    /\ \E t \in Finished \ yielded :
         /\ yielded' = yielded \cup {t}
         /\ results' = IF futures[t].ret = "success"
                       THEN Append(results, t) ELSE results
    /\ UNCHANGED <<fnvars, gwvars, uivars, rfavars, exvars, futures, completed, runner>>

\* one iteration of the as_completed loop: the result, success record or
\* error result, is appended
EX_Collect ==
    /\ runner = "collecting"
    /\ version \in Versions
    /\ \E t \in Finished \ yielded :
         /\ yielded' = yielded \cup {t}
         /\ results' = Append(results, t)
    /\ UNCHANGED <<fnvars, gwvars, uivars, rfavars, exvars, futures, completed, runner>>

\* The end of extract_all_10k: the counts are taken from the results, the
\* results are written to OUTPUT_FILE, then the CSV summary is built.  The
\* summary of extract_10k indexes data['identity_and_jurisdiction'] of each
\* success record and raises when the record has not that shape.
EX_Finish ==
    /\ runner = "collecting"
    /\ version \in Versions
    /\ yielded = Tasks
    /\ output_file' = [written |-> TRUE, content |-> results]
    /\ runner' = IF /\ version = "extract_10k"
                    /\ \E t \in Tasks : /\ futures[t].ret = "success"
                                        /\ futures[t].call.result = "malformed"
                 THEN "raised" ELSE "returned"
    /\ UNCHANGED <<fnvars, gwvars, uivars, exvars, rfa, futures, results, completed, yielded>>

\* the statistics extract_all_10k prints after the pool:
\* sum(1 for r in results if r['success']) and len(results) - success
ReportedSuccess ==
    Cardinality({i \in 1..Len(results) : futures[results[i]].ret = "success"})

ReportedFailed == Len(results) - ReportedSuccess

ExNext ==
    \/ EX_Start
    \/ \E t \in Tasks : EX_TaskStart(t)
    \/ \E t \in Tasks : EX_TaskAttempt(t)
    \/ \E t \in Tasks : EX_ReadCounter(t)
    \/ \E t \in Tasks : EX_WriteCounter(t)
    \/ EX_Collect
    \/ EX_Finish

SpecExtract == ScriptInit /\ [][ExNext]_vars

(***************************************************************************)
(* SpecAnalysis: run_full_analysis of app/run_analysis.py                  *)
(***************************************************************************)

MaxCompanies == 2

MaxRegulations == 2

Tickers == {"AAA", "BBB"}

\* a company of company_10k_data.json: its ticker, or none
CompanyLists ==
    UNION { [1..n -> Tickers \cup {"none"}] : n \in 0..MaxCompanies }

\* The names bound when the statistics are printed: the parameters, the
\* locals assigned so far and the module's globals.  No statement of the
\* file assigns `tasks`.
BoundNames ==
    {"sample_size", "regulations", "companies", "risk_scores", "results",
     "start_time", "elapsed_time", "company", "ticker", "risk_data",
     "company_info", "regulation", "result"}

\* the data are loaded (and cut to the sample)
RFA_Load ==
    /\ rfa.pc = "idle"
    /\ \E cs \in CompanyLists, rs \in SUBSET Tickers, n \in 1..MaxRegulations :
         rfa' = [pc |-> "loop", companies |-> cs, risk_scores |-> rs,
                 regulations |-> n, i |-> 1, summary |-> {}]
    /\ results' = <<>>
    /\ UNCHANGED <<fnvars, gwvars, uivars, exvars, output_file, futures, completed, yielded, runner>>

\* overall_impact_score of the risk file, in tenths
OverallImpactScore == [t \in Tickers |-> IF t = "AAA" THEN -15 ELSE 5]

\* One iteration of `for company in tqdm(companies)`: a company without a
\* ticker or without a pre-calculated score is skipped; else one record
\* per regulation is appended.  company_name is what the company's
\* identity section gives: a name, or null.
RFA_Company ==
    /\ rfa.pc = "loop"
    /\ rfa.i <= Len(rfa.companies)
    /\ LET ticker == rfa.companies[rfa.i] IN
       IF ticker = "none" \/ ticker \notin rfa.risk_scores
       THEN results' = results
       ELSE \E name \in {"given", "None"} :
              results' = results \o [j \in 1..rfa.regulations |->
                                       [ticker |-> ticker, regulation |-> j,
                                        company_name |-> name,
                                        impact_score |-> OverallImpactScore[ticker],
                                        confidence |-> 9]]
    /\ rfa' = [rfa EXCEPT !.i = rfa.i + 1]
    /\ UNCHANGED <<fnvars, gwvars, uivars, exvars, output_file, futures, completed, yielded, runner>>

\* the records of one group of df.groupby(['ticker', 'company_name'])
GroupOf(rs, t, n) ==
    { i \in 1..Len(rs) : rs[i].ticker = t /\ rs[i].company_name = n }

RECURSIVE SumOver(_, _, _)
SumOver(rs, idx, col) ==
    IF idx = {} THEN 0
    ELSE LET i == CHOOSE j \in idx : TRUE
         IN  rs[i][col] + SumOver(rs, idx \ {i}, col)

\* .agg({'impact_score': 'mean', 'confidence': 'mean'}) of one group
MeanOver(rs, idx, col) == SumOver(rs, idx, col) \div Cardinality(idx)

\* df_company_summary: one row per (ticker, company_name) group; groupby
\* leaves out the groups whose key is null
CompanySummary(rs) ==
    { [ticker |-> rs[i].ticker, company_name |-> rs[i].company_name,
       impact_score |-> MeanOver(rs, GroupOf(rs, rs[i].ticker, rs[i].company_name),
                                 "impact_score"),
       confidence |-> MeanOver(rs, GroupOf(rs, rs[i].ticker, rs[i].company_name),
                               "confidence")] :
        i \in { j \in 1..Len(rs) : rs[j].company_name # "None" } }

\* After the loop: the statistics are printed, the results are written to
\* OUTPUT_FILE, the summary is made and the results are returned.  The
\* statistics read len(tasks); an unbound name raises NameError there,
\* before the file is opened.  A frame made of no record has no column to
\* group by: KeyError.
RFA_Report ==
    /\ rfa.pc = "loop"
    /\ rfa.i > Len(rfa.companies)
    /\ IF "tasks" \in BoundNames
       THEN /\ output_file' = [written |-> TRUE, content |-> results]
            /\ rfa' = IF results = <<>>
                      THEN [rfa EXCEPT !.pc = "raised"]
                      ELSE [rfa EXCEPT !.pc = "returned",
                                       !.summary = CompanySummary(results)]
       ELSE /\ output_file' = output_file
            /\ rfa' = [rfa EXCEPT !.pc = "raised"]
    /\ UNCHANGED <<fnvars, gwvars, uivars, exvars, poolvars>>

RfaNext == RFA_Load \/ RFA_Company \/ RFA_Report

SpecAnalysis == ScriptInit /\ [][RfaNext]_vars

(***************************************************************************)
(* Claims about the dashboard batch (checked under Spec)                   *)
(***************************************************************************)

\* C1: when one task of a batch fails, by exhausting the gateway attempts
\* or by an uncaught exception while formatting the prompt or building the
\* record, the batch still ends by returning, and every task that produced
\* a record has it in the returned results.
C1_TaskFailureIsIsolated ==
    LET failed == {t \in Tasks : futures[t].ret \in {"None", "raise"}} IN
    (runner \in {"returned", "raised"} /\ company_file = "ok"
        /\ Cardinality(failed) = 1) =>
        /\ runner = "returned"
        /\ \A t \in Tasks \ failed : \E i \in 1..Len(results) : results[i] = t

\* C2: at every instant at most MAX_WORKERS tasks are executing a gateway
\* call, also when more tasks than workers were submitted: a task beyond
\* the first MAX_WORKERS has started only if enough others have completed.
C2_AtMostWInFlight ==
    /\ Cardinality(Running) <= MAX_WORKERS
    /\ Cardinality(Running \cup Finished) > MAX_WORKERS =>
         Cardinality(Finished) >= Cardinality(Running \cup Finished) - MAX_WORKERS

\* C2 witness: more tasks than workers; the pool is full and a task that
\* had to wait was admitted after another one completed.
C2_Witness ==
    /\ NumTasks > MAX_WORKERS
    /\ Cardinality(Running) = MAX_WORKERS
    /\ Finished # {}
    /\ Cardinality(Running \cup Finished) > MAX_WORKERS

\* C3: when the batch returns, the results hold exactly one record for each
\* task whose gateway call handed back a decoded result within the attempt
\* budget, and none for a task whose call failed on every attempt.
C3_OneRecordPerSuccessfulCall ==
    runner = "returned" /\ company_file = "ok" =>
        \A t \in Tasks :
            LET n == Cardinality({i \in 1..Len(results) : results[i] = t})
                c == futures[t].call
            IN /\ (c.state = "returned" /\ c.result # "none") => n = 1
               /\ (c.state = "returned" /\ c.result = "none") => n = 0

\* C9: a document that fails the validation gate ends process_upload before
\* anything is analysed: no task is submitted, no gateway request is sent,
\* no simulated analysis runs, and no analysis data is returned.
C9_RejectedDocumentStartsNothing ==
    (ui.pc \notin {"idle", "validate"} /\ ~validate_regulatory_document(ui.text)) =>
        /\ ui.pc = "done"
        /\ ui.status = "rejected"
        /\ ui.data = "None"
        /\ ~ui.simulated
        /\ runner = "idle"
        /\ company_file = "unread"
        /\ \A t \in Tasks : futures[t] = NotSubmitted

\* C9 witness: a text long enough but without any keyword was rejected and
\* the callback has returned.
C9_Witness ==
    /\ ui.pc = "done"
    /\ ui.status = "rejected"
    /\ ui.text = [len |-> 50, kw |-> 0]

\* C10 as stated: when the company data file cannot be found or read, the
\* upload ends in an error and does not report a successful analysis.
C10_MissingDataIsTerminalError ==
    (company_file \in {"missing", "unreadable"} /\ ui.pc = "done") =>
        /\ ui.status # "success"
        /\ ui.data = "None"

\* C10 as amended: when the company data file cannot be found or read, the
\* entity list is empty, no task is submitted and no gateway request sent,
\* the runner returns an empty result without raising, and process_upload
\* ends with the success status on the simulated analysis, marked as
\* simulation for lack of results.
C10_MissingDataFallsBackToSimulation ==
    company_file \in {"missing", "unreadable"} =>
        /\ \A t \in Tasks : futures[t] = NotSubmitted
        /\ runner = "returned"
        /\ results = <<>>
        /\ ui.pc \in {"analyzing", "done"}
        /\ ui.pc = "done" =>
             /\ ui.status = "success"
             /\ ui.data = "simulated"
             /\ ui.rows = SIM_COMPANIES
             /\ ui.mode = "simulation_no_results"

\* C10 witness: the file was missing and the upload has ended.
C10_Witness ==
    /\ company_file = "missing"
    /\ ui.pc = "done"

(***************************************************************************)
(* Claims about the extraction and analysis scripts                        *)
(***************************************************************************)

\* C4 (SpecExtract): under every interleaving each task of extract_10k_v2
\* adds exactly one to exactly one of progress['success'] and
\* progress['failed'] and no increment is lost: when the batch ends,
\* progress['failed'] is the number of tasks that failed and the two
\* counters sum to the number of tasks.
C4_CountersCountEveryTaskOnce ==
    (runner \in {"returned", "raised"} /\ version = "extract_10k_v2") =>
        /\ progress.failed = Cardinality({t \in Tasks : futures[t].ret # "success"})
        /\ progress.success + progress.failed = NumTasks

\* C8 (SpecAnalysis): a batch in which some entities produced no result
\* still runs to normal completion: run_full_analysis writes every
\* collected record to the output file and returns, without raising.
C8_PartialBatchCompletes ==
    ( /\ rfa.pc \in {"returned", "raised"}
      /\ results # <<>>
      /\ \E i \in 1..Len(rfa.companies) :
            rfa.companies[i] = "none" \/ rfa.companies[i] \notin rfa.risk_scores )
    => /\ rfa.pc = "returned"
       /\ output_file = [written |-> TRUE, content |-> results]

(***************************************************************************)
(* Claims about the gateway (checked under SpecGateway)                    *)
(***************************************************************************)

\* C5: one invocation of call_bedrock sends exactly one request per attempt,
\* makes at most MAX_RETRIES attempts whatever the attempts meet, and sends
\* no request after the first attempt that hands a result to the caller.
C5_OneRequestPerAttemptWithinBudget ==
    LET budget == CASE gw.variant = "app" -> APP_ATTEMPTS
                    [] gw.variant = "run_analysis" -> MAX_RETRIES_run_analysis
                    [] gw.variant = "extract_10k" -> MAX_RETRIES_extract_10k
                    [] gw.variant = "extract_10k_v2" -> MAX_RETRIES_extract_10k_v2
                    [] OTHER -> 0
        succeeds(o) == /\ o \in Decoded
                       /\ ~(gw.variant = "extract_10k_v2" /\ o = "ok_malformed")
    IN /\ gw.requests = Len(gw_hist)
       /\ gw.requests <= budget
       /\ \A i \in 1..(Len(gw_hist) - 1) : ~succeeds(gw_hist[i])
       /\ gw.state = "running" => gw.attempt = gw.requests

\* C5 witness: an invocation that was throttled, then met an undecodable
\* body, then succeeded on the third and last attempt of its budget.
C5_Witness ==
    /\ gw.variant = "extract_10k_v2"
    /\ gw_hist = <<"throttle", "bad_body", "ok">>
    /\ gw.requests = 3
    /\ gw.state = "returned"
    /\ gw.result = "record"

\* C6: an attempt whose completion is delivered but is not JSON after
\* fence-stripping consumes exactly one attempt of the budget, is retried
\* when attempts remain, ends the call with no result on the last attempt,
\* and leaves the call where a transport failure would have left it.
C6_ParseFailureIsOneAttempt ==
    [][ (gw.state = "running" /\ gw_hist' = Append(gw_hist, "bad_text")) =>
          LET budget == CASE gw.variant = "app" -> APP_ATTEMPTS
                          [] gw.variant = "run_analysis" -> MAX_RETRIES_run_analysis
                          [] gw.variant = "extract_10k" -> MAX_RETRIES_extract_10k
                          [] gw.variant = "extract_10k_v2" -> MAX_RETRIES_extract_10k_v2
              transport == GatewayStep(gw, "transport")
          IN /\ gw'.requests = gw.requests + 1
             /\ IF gw.attempt + 1 < budget
                THEN gw'.state = "running" /\ gw'.attempt = gw.attempt + 1
                ELSE gw'.state = "returned" /\ gw'.result = "none"
             /\ gw'.state = transport.state
             /\ gw'.attempt = transport.attempt
             /\ gw'.requests = transport.requests
             /\ gw'.result = transport.result ]_vars

\* C6 witness: every attempt of an extract_10k_v2 invocation met an
\* undecodable completion; the call ended with no result after three.
C6_Witness ==
    /\ gw.variant = "extract_10k_v2"
    /\ gw_hist = <<"bad_text", "bad_text", "bad_text">>
    /\ gw.state = "returned"
    /\ gw.result = "none"

\* C7: call_bedrock never propagates an exception to its caller: whatever
\* the attempts meet, it returns, and returns None once the attempts are
\* exhausted.
C7_NeverPropagates ==
    /\ gw.state # "raised"
    /\ (gw.state = "returned" /\ gw_hist # <<>> /\ gw_hist[Len(gw_hist)] \in Failures)
          => gw.result = "none"

(***************************************************************************)
(* Claims about the progress published during the dashboard batch          *)
(***************************************************************************)

\* C11 (Spec): with a progress callback supplied, the callback is invoked
\* exactly once after each task completion, failed or successful, with
\* completed = 1, 2, ..., N and total = N: the number of invocations is the
\* number of completions the loop has taken, the published snapshot holds
\* that number and total = N, and when analyze_regulation_with_bedrock has
\* ended the snapshot has completed = total = N.
C11_SnapshotAfterEveryCompletion ==
    ( /\ ui.pc = "analyzing"
      /\ company_file = "ok"
      /\ runner \in {"collecting", "unwinding", "returned", "raised"} )
    => /\ completed = Cardinality(yielded)
       /\ completed > 0 =>
            ui.progress_data = [step |-> "analyzing", completed |-> completed,
                                total |-> NumTasks]
       /\ runner \in {"returned", "raised"} => completed = NumTasks

(***************************************************************************)
(* SpecClean: clean_json_response of extract_10k_v2.py and the json.loads  *)
(* that call_bedrock applies to what it returns.  A text is a sequence of  *)
(* characters; "^" stands for a backtick, "1" for a digit (a text of digits is a JSON  *)
(* number), "a" for a character that no JSON value is made of.             *)
(***************************************************************************)

MaxBody == 2

Fence == <<"^", "^", "^">>

FenceJson == Fence \o <<"j", "s", "o", "n">>

\* str.strip(): leading and trailing whitespace removed
RECURSIVE lstrip(_)
lstrip(t) == IF t # <<>> /\ Head(t) = " " THEN lstrip(Tail(t)) ELSE t

RECURSIVE rstrip(_)
rstrip(t) ==
    IF t # <<>> /\ t[Len(t)] = " " THEN rstrip(SubSeq(t, 1, Len(t) - 1)) ELSE t

strip(t) == rstrip(lstrip(t))

startswith(t, p) == Len(t) >= Len(p) /\ SubSeq(t, 1, Len(p)) = p

endswith(t, p) == Len(t) >= Len(p) /\ SubSeq(t, Len(t) - Len(p) + 1, Len(t)) = p

\* Mutation of clean_json_response: the trailing marker is left in place.
clean_json_response_KeepsTrailing(text) ==
    LET t1 == strip(text)
        t2 == IF startswith(t1, FenceJson) THEN SubSeq(t1, 8, Len(t1))
              ELSE IF startswith(t1, Fence) THEN SubSeq(t1, 4, Len(t1))
              ELSE t1
    IN  strip(t2)

clean_json_response(text) ==
    LET t1 == strip(text)
        t2 == IF startswith(t1, FenceJson) THEN SubSeq(t1, 8, Len(t1))
              ELSE IF startswith(t1, Fence) THEN SubSeq(t1, 4, Len(t1))
              ELSE t1
        t3 == IF endswith(t2, Fence) THEN SubSeq(t2, 1, Len(t2) - 3) ELSE t2
    IN  strip(t3)

\* json.loads: whitespace around the value is allowed; anything that is
\* not a JSON value raises JSONDecodeError
json_loads(t) ==
    LET s == strip(t) IN
    IF s # <<>> /\ \A i \in 1..Len(s) : s[i] = "1" THEN "value" ELSE "JSONDecodeError"

\* the texts between the markers
Bodies ==
    UNION { [1..n -> {"1", "a", " ", "^"}] : n \in 0..MaxBody }
    \cup { <<"j", "s", "o", "n">>, <<"j", "s", "o", "n", "1">> }

\* A completion, by its parts: whitespace, a leading marker or none, the
\* body, a trailing marker or none, whitespace.
Completions ==
    [lead : {<<>>, <<" ">>}, opener : {<<>>, Fence, FenceJson}, body : Bodies,
     closer : {<<>>, Fence}, trail : {<<>>, <<" ">>}]

TextOf(c) == c.lead \o c.opener \o c.body \o c.closer \o c.trail

CleanInit ==
    /\ GwInit /\ UiInit /\ PoolInit /\ ExInit /\ RfaInit
    /\ BEDROCK_AVAILABLE = TRUE
    /\ call_args \in Completions
    /\ call_ret = NoCall

\* cleaned = clean_json_response(response_text)
CleanJsonResponse ==
    /\ call_ret.kind = "none"
    /\ call_ret' = [kind |-> "cleaned", value |-> clean_json_response(TextOf(call_args))]
    /\ UNCHANGED <<gwvars, uivars, poolvars, exvars, rfavars, call_args>>

\* data = json.loads(cleaned)
JsonLoads ==
    /\ call_ret.kind = "cleaned"
    /\ call_ret' = [call_ret EXCEPT !.kind = json_loads(call_ret.value)]
    /\ UNCHANGED <<gwvars, uivars, poolvars, exvars, rfavars, call_args>>

CleanNext == CleanJsonResponse \/ JsonLoads

SpecClean == CleanInit /\ [][CleanNext]_vars

\* the completion has a leading and a trailing marker; the leading marker
\* is ```json when the language tag follows the backticks
Wrapped(c) ==
    /\ c.opener # <<>> /\ c.closer # <<>>
    /\ c.opener = Fence => ~startswith(c.body, <<"j", "s", "o", "n">>)

\* the completion has no marker anywhere
NoFence(c) ==
    /\ c.opener = <<>> /\ c.closer = <<>>
    /\ \A i \in 1..Len(c.body) : c.body[i] # "^"

\* C12 (SpecClean): clean_json_response applied to a completion wrapped in
\* a leading ```json or ``` marker and a trailing ``` marker returns the
\* enclosed text with the surrounding whitespace trimmed; applied to a text
\* without markers it returns the text trimmed; and a cleaned text that is
\* not valid JSON makes json.loads raise, nothing is repaired.
C12_FenceStripping ==
    call_ret.kind # "none" =>
      /\ Wrapped(call_args) => call_ret.value = strip(call_args.body)
      /\ NoFence(call_args) => call_ret.value = strip(TextOf(call_args))
      /\ call_ret.kind # "cleaned" =>
           /\ (Wrapped(call_args) \/ NoFence(call_args)) =>
                (call_ret.kind = "JSONDecodeError"
                   <=> json_loads(call_args.body) = "JSONDecodeError")
           /\ call_ret.kind = "value" => json_loads(call_ret.value) = "value"

\* a wrapped completion with whitespace around a JSON body has been
\* cleaned and decoded, and a text without markers has been refused
C12_Witness ==
    \/ /\ call_ret.kind = "value"
       /\ call_args.opener = FenceJson /\ call_args.closer = Fence
       /\ call_args.body = <<" ", "1">> /\ call_args.lead = <<" ">>
    \/ /\ call_ret.kind = "JSONDecodeError"
       /\ NoFence(call_args) /\ call_args.body = <<"a", "a">>

(***************************************************************************)
(* SpecPair: the result record analyze_company_regulation_pair builds from *)
(* the object call_bedrock returned (dashboard/app.py and run_analysis.py) *)
(* A decoded object is given by the set of its keys; the value of a key    *)
(* that is present is of the type the record expects and is written        *)
(* "given".                                                                *)
(***************************************************************************)

\* the keys the record reads from the analysis, per script
ExpectedKeys(v) ==
    IF v = "app"
    THEN {"impact_score", "sentiment", "reliability", "reasons"}
    ELSE {"impact_score", "impact_category", "confidence", "key_reasons",
          "recommendation", "explanation"}

\* the second argument of analysis.get(key, default)
DefaultOf(k) ==
    CASE k = "impact_score" -> "0"
      [] k \in {"sentiment", "impact_category"} -> "NEUTRAL"
      [] k \in {"reliability", "confidence"} -> "0.5"
      [] k \in {"reasons", "key_reasons"} -> "[]"
      [] k = "recommendation" -> "HOLD"
      [] k = "explanation" -> "''"

\* `if analysis:` then the record, else None; an object without any key is
\* falsy
analyze_company_regulation_pair(v, analysis) ==
    IF analysis = {}
    THEN [kind |-> "None", value |-> "-"]
    ELSE [kind |-> "record",
          value |-> [k \in ExpectedKeys(v) |->
                       IF k \in analysis THEN "given" ELSE DefaultOf(k)]]

\* the objects a completion can decode to: any subset of the expected
\* keys, with or without a key the record does not read
PairInputs ==
    { [variant |-> v, analysis |-> a] :
        v \in {"app", "run_analysis"},
        a \in SUBSET {"impact_score", "sentiment", "reliability", "reasons",
                      "impact_category", "confidence", "key_reasons",
                      "recommendation", "explanation", "other"} }

PairInit ==
    /\ GwInit /\ UiInit /\ PoolInit /\ ExInit /\ RfaInit
    /\ BEDROCK_AVAILABLE = TRUE
    /\ call_args \in { x \in PairInputs :
                         x.analysis \subseteq ExpectedKeys(x.variant) \cup {"other"} }
    /\ call_ret = NoCall

\* analyze_company_regulation_pair after call_bedrock has returned the
\* decoded object
AnalyzePair ==
    /\ call_ret.kind = "none"
    /\ call_ret' = analyze_company_regulation_pair(call_args.variant, call_args.analysis)
    /\ UNCHANGED <<gwvars, uivars, poolvars, exvars, rfavars, call_args>>

SpecPair == PairInit /\ [][AnalyzePair]_vars

\* C13 (SpecPair): for every completion that decodes to a JSON object,
\* whatever subset of the expected keys is absent from it (all of them
\* included), analyze_company_regulation_pair returns a record in which a
\* present key has the value given and an absent key has its default; the
\* record is never dropped.
C13_MissingKeysTakeDefaults ==
    call_ret.kind # "none" =>
      /\ call_ret.kind = "record"
      /\ \A k \in ExpectedKeys(call_args.variant) :
           call_ret.value[k] = IF k \in call_args.analysis THEN "given" ELSE DefaultOf(k)

(***************************************************************************)
(* SpecNormalize: normalize_structure of extract_10k_v2.py, applied by     *)
(* call_bedrock to the decoded completion.  A section of the decoded       *)
(* object is absent, null, or a mapping: the two flexible sections map     *)
(* labels to percentages, the fixed sections are given by the set of their *)
(* keys that are present (the value of a present key is written "given").  *)
(***************************************************************************)

EmptyMap == [r \in {} |-> 0]

\* mappings a filing can give for geographic_revenue
RegionMaps ==
    { EmptyMap,
      [r \in {"EMEA", "APAC"} |-> IF r = "EMEA" THEN 40 ELSE 60],
      [r \in {"americas_revenue_share_prct_2024"} |-> 100] }

\* mappings a filing can give for business_segments
SegmentMaps ==
    { EmptyMap, [s \in {"Products", "Services"} |-> IF s = "Products" THEN 75 ELSE 25] }

Absent == [st |-> "absent", map |-> EmptyMap, keys |-> {}]

Null == [st |-> "null", map |-> EmptyMap, keys |-> {}]

Mapping(m) == [st |-> "map", map |-> m, keys |-> DOMAIN m]

Fields(ks) == [st |-> "map", map |-> EmptyMap, keys |-> ks]

\* the decoded objects
DecodedRecords ==
    [company_info : {Absent, Null}
        \cup {Fields(ks) : ks \in SUBSET {"name", "ticker", "domicile_country", "sector"}},
     geographic_revenue : {Absent, Null} \cup {Mapping(m) : m \in RegionMaps},
     business_segments : {Absent} \cup {Mapping(m) : m \in SegmentMaps},
     key_financials : {Absent, Null}
        \cup {Fields(ks) : ks \in SUBSET {"purchase_obligations_usd", "r_and_d_expense_usd"}},
     supply_chain : {Absent, Null}
        \cup {Fields(ks) : ks \in SUBSET {"major_suppliers_industries",
                                          "key_supplier_countries"}}]

\* data.get(section, {}): the default stands for an absent key only; a
\* key that is present with null gives None
GetSection(s) == IF s.st = "absent" THEN Mapping(EmptyMap) ELSE s

\* data.get(section, {}).get(key, default)
GetField(s, k, default) ==
    IF k \in GetSection(s).keys THEN "given" ELSE default

\* dict.get(key) of a dict of the output
Get(d, k) == IF k \in DOMAIN d THEN d[k] ELSE "None"

\* the keys format_company_profile reads from geographic_exposure
LegacyRegionKeys ==
    {"americas_revenue_share_prct_2024", "europe_revenue_share_prct_2024",
     "china_revenue_share_prct_2024", "japan_revenue_share_prct_2024",
     "restofasia_revenue_share_prct_2024"}

\* None has no .get and no .keys: the chained lookups raise AttributeError
NormalizeFails(data) ==
    \/ data.company_info.st = "null"
    \/ data.geographic_revenue.st = "null"
    \/ data.supply_chain.st = "null"
    \/ data.key_financials.st = "null"

\* the dict normalize_structure returns
Normalized(data) ==
    [company_info |-> GetSection(data.company_info),
     geographic_revenue |-> GetSection(data.geographic_revenue),
     business_segments |-> GetSection(data.business_segments),
     key_financials |-> GetSection(data.key_financials),
     supply_chain |-> GetSection(data.supply_chain),
     identity_and_jurisdiction |->
        [company_name |-> GetField(data.company_info, "name", "None"),
         trading_symbol |-> GetField(data.company_info, "ticker", "None"),
         legal_domicile_country |->
             GetField(data.company_info, "domicile_country", "None"),
         sector_industry |-> GetField(data.company_info, "sector", "None")],
     geographic_exposure |->
        [k \in {"regions", "regions_of_activity"} |->
            IF k = "regions" THEN GetSection(data.geographic_revenue).map
            ELSE GetSection(data.geographic_revenue).keys],
     business_mix |-> [segments |-> GetSection(data.business_segments).map],
     supply_chain_and_commitments |->
        [suppliers_sector_industries |->
             GetField(data.supply_chain, "major_suppliers_industries", "[]"),
         key_countries |-> GetField(data.supply_chain, "key_supplier_countries", "[]"),
         purchase_obligations_usd |->
             GetField(data.key_financials, "purchase_obligations_usd", "None")],
     tax_and_innovation |->
        [r_and_d_expense_usd |->
             GetField(data.key_financials, "r_and_d_expense_usd", "None")]]

\* Mutation of normalize_structure: the region labels are not carried over.
normalize_structure_DropsLabels(data) ==
    IF NormalizeFails(data)
    THEN [kind |-> "AttributeError", value |-> "-"]
    ELSE [kind |-> "return",
          value |-> [Normalized(data) EXCEPT !.geographic_revenue = Mapping(EmptyMap)]]

\* Mutation of normalize_structure: company_info is not kept in the
\* output, its legacy fields only.
normalize_structure_DropsCompanyInfo(data) ==
    IF NormalizeFails(data)
    THEN [kind |-> "AttributeError", value |-> "-"]
    ELSE [kind |-> "return",
          value |-> [Normalized(data) EXCEPT !.company_info = Mapping(EmptyMap)]]

normalize_structure(data) ==
    IF NormalizeFails(data)
    THEN [kind |-> "AttributeError", value |-> "-"]
    ELSE [kind |-> "return", value |-> Normalized(data)]

NormalizeInit ==
    /\ GwInit /\ UiInit /\ PoolInit /\ ExInit /\ RfaInit
    /\ BEDROCK_AVAILABLE = TRUE
    /\ call_args \in DecodedRecords
    /\ call_ret = NoCall

\* data = normalize_structure(data)
NormalizeStructure ==
    /\ call_ret.kind = "none"
    /\ call_ret' = normalize_structure(call_args)
    /\ UNCHANGED <<gwvars, uivars, poolvars, exvars, rfavars, call_args>>

SpecNormalize == NormalizeInit /\ [][NormalizeStructure]_vars

\* C14 (SpecNormalize): the output of normalize_structure holds the
\* geographic_revenue and business_segments mappings of its input with the
\* same keys and values (under the flexible keys and under regions /
\* segments), and each legacy fixed-region field read from
\* geographic_exposure is null.
C14_FlexibleMapsCopiedVerbatim ==
    ( /\ call_ret.kind = "return"
      /\ call_args.geographic_revenue.st = "map"
      /\ call_args.business_segments.st = "map" )
    => /\ call_ret.value.geographic_revenue.map = call_args.geographic_revenue.map
       /\ call_ret.value.geographic_exposure["regions"] = call_args.geographic_revenue.map
       /\ call_ret.value.business_segments.map = call_args.business_segments.map
       /\ call_ret.value.business_mix.segments = call_args.business_segments.map
       /\ \A k \in LegacyRegionKeys : Get(call_ret.value.geographic_exposure, k) = "None"

\* {EMEA: 40, APAC: 60} has been normalised
C14_Witness ==
    /\ call_ret.kind = "return"
    /\ DOMAIN call_args.geographic_revenue.map = {"EMEA", "APAC"}
    /\ call_ret.value.geographic_revenue.map["EMEA"] = 40
    /\ call_ret.value.geographic_revenue.map["APAC"] = 60
    /\ DOMAIN call_args.business_segments.map = {"Products", "Services"}

\* C15 (SpecNormalize): whatever sections or keys of company_info,
\* key_financials and supply_chain the decoded record does not give,
\* normalize_structure returns, with null in each legacy field whose
\* source is not given (an empty list in the supplier fields).
C15_MissingSourceGivesNull ==
    call_ret.kind # "none" =>
      /\ call_ret.kind = "return"
      /\ call_ret.value.identity_and_jurisdiction.company_name =
            (IF "name" \in call_args.company_info.keys THEN "given" ELSE "None")
      /\ call_ret.value.identity_and_jurisdiction.sector_industry =
            (IF "sector" \in call_args.company_info.keys THEN "given" ELSE "None")
      /\ call_ret.value.supply_chain_and_commitments.suppliers_sector_industries =
            (IF "major_suppliers_industries" \in call_args.supply_chain.keys
             THEN "given" ELSE "[]")
      /\ call_ret.value.supply_chain_and_commitments.purchase_obligations_usd =
            (IF "purchase_obligations_usd" \in call_args.key_financials.keys
             THEN "given" ELSE "None")
      /\ call_ret.value.tax_and_innovation.r_and_d_expense_usd =
            (IF "r_and_d_expense_usd" \in call_args.key_financials.keys
             THEN "given" ELSE "None")

(***************************************************************************)
(* SpecBucket: the two score-to-bucket mappings, get_overall_recommendation*)
(* of run_analysis.py and get_sentiment_from_score of dashboard/app.py.    *)
(* A score is counted in tenths: -15 is -1.5.                              *)
(***************************************************************************)

ScoreBound == 36

Scores == (0 - ScoreBound)..ScoreBound

Cutoffs == {-15, -5, 5, 15}

\* SENTIMENT_CONFIG, in the order of the dict, reduced to name and range
SENTIMENT_CONFIG ==
    << [sentiment |-> "VERY_NEGATIVE", lo |-> -30, hi |-> -15],
       [sentiment |-> "NEGATIVE", lo |-> -15, hi |-> -5],
       [sentiment |-> "NEUTRAL", lo |-> -5, hi |-> 5],
       [sentiment |-> "POSITIVE", lo |-> 5, hi |-> 15],
       [sentiment |-> "VERY_POSITIVE", lo |-> 15, hi |-> 30] >>

\* the entries whose range holds the score: range[0] <= score < range[1]
MatchingEntries(score) ==
    { i \in 1..Len(SENTIMENT_CONFIG) :
        SENTIMENT_CONFIG[i].lo <= score /\ score < SENTIMENT_CONFIG[i].hi }

\* Mutation of get_sentiment_from_score: no fallback after the loop.
get_sentiment_from_score_NoFallback(score) ==
    IF MatchingEntries(score) # {}
    THEN SENTIMENT_CONFIG[CHOOSE i \in MatchingEntries(score) :
                            \A j \in MatchingEntries(score) : i <= j].sentiment
    ELSE "None"

\* the first entry that matches, else the fallback after the loop
get_sentiment_from_score(score) ==
    IF MatchingEntries(score) # {}
    THEN SENTIMENT_CONFIG[CHOOSE i \in MatchingEntries(score) :
                            \A j \in MatchingEntries(score) : i <= j].sentiment
    ELSE IF score >= 15 THEN "VERY_POSITIVE" ELSE "VERY_NEGATIVE"

get_overall_recommendation(score) ==
    IF score <= -15 THEN "SELL"
    ELSE IF score <= -5 THEN "REDUCE"
    ELSE IF score <= 5 THEN "HOLD"
    ELSE IF score <= 15 THEN "BUY"
    ELSE "STRONG_BUY"

\* the position of a bucket, from the most negative (1) to the most
\* positive (5)
RankOf(bucket) ==
    CASE bucket \in {"SELL", "VERY_NEGATIVE"} -> 1
      [] bucket \in {"REDUCE", "NEGATIVE"} -> 2
      [] bucket \in {"HOLD", "NEUTRAL"} -> 3
      [] bucket \in {"BUY", "POSITIVE"} -> 4
      [] bucket \in {"STRONG_BUY", "VERY_POSITIVE"} -> 5
      [] OTHER -> 0

BucketInit ==
    /\ GwInit /\ UiInit /\ PoolInit /\ ExInit /\ RfaInit
    /\ BEDROCK_AVAILABLE = TRUE
    /\ call_args \in Scores
    /\ call_ret = [kind |-> "none", value |-> [recommendation |-> "-", sentiment |-> "-"]]

GetOverallRecommendation ==
    /\ call_ret.value.recommendation = "-"
    /\ call_ret' = [kind |-> "return",
                    value |-> [call_ret.value EXCEPT
                                 !.recommendation = get_overall_recommendation(call_args)]]
    /\ UNCHANGED <<gwvars, uivars, poolvars, exvars, rfavars, call_args>>

GetSentimentFromScore ==
    /\ call_ret.value.sentiment = "-"
    /\ call_ret' = [kind |-> "return",
                    value |-> [call_ret.value EXCEPT
                                 !.sentiment = get_sentiment_from_score(call_args)]]
    /\ UNCHANGED <<gwvars, uivars, poolvars, exvars, rfavars, call_args>>

BucketNext == GetOverallRecommendation \/ GetSentimentFromScore

SpecBucket == BucketInit /\ [][BucketNext]_vars

\* C16 (SpecBucket): each mapping gives every score, the cutoffs and the
\* scores outside [-3, 3] included, exactly one of its five buckets, and
\* the buckets follow one another at the cutoffs without gap or overlap:
\* at most one range of SENTIMENT_CONFIG holds the score, and the rank of
\* the bucket is one more than the number of cutoffs the score has passed
\* (cutoffs below the score for the recommendation, cutoffs not above it
\* for the sentiment).
C16_EveryScoreInExactlyOneBucket ==
    /\ Cardinality(MatchingEntries(call_args)) <= 1
    /\ call_ret.value.recommendation # "-" =>
         /\ call_ret.value.recommendation \in {"SELL", "REDUCE", "HOLD", "BUY", "STRONG_BUY"}
         /\ RankOf(call_ret.value.recommendation)
              = 1 + Cardinality({c \in Cutoffs : c < call_args})
    /\ call_ret.value.sentiment # "-" =>
         /\ call_ret.value.sentiment \in {SENTIMENT_CONFIG[i].sentiment :
                                            i \in 1..Len(SENTIMENT_CONFIG)}
         /\ RankOf(call_ret.value.sentiment)
              = 1 + Cardinality({c \in Cutoffs : c <= call_args})

\* both mappings have been applied to a cutoff and to a score beyond the
\* last range
C16_Witness ==
    /\ call_ret.value.recommendation # "-"
    /\ call_ret.value.sentiment # "-"
    /\ call_args \in Cutoffs \cup {-31, 30, 31}

\* C17 (SpecBucket): a score exactly at a cutoff gets the bucket of the
\* same rank from get_overall_recommendation and from
\* get_sentiment_from_score.
C17_CutoffOnSameSideInBothMappings ==
    ( /\ call_args \in Cutoffs
      /\ call_ret.value.recommendation # "-"
      /\ call_ret.value.sentiment # "-" )
    => RankOf(call_ret.value.recommendation) = RankOf(call_ret.value.sentiment)

(***************************************************************************)
(* Claims about the summaries                                              *)
(***************************************************************************)

\* C18 (SpecAnalysis): when run_full_analysis has ended with records
\* collected, its company summary has exactly one row for each ticker of
\* the results, no ticker in two rows, and the row's impact_score and
\* confidence are the means of the ticker's records.
C18_OneSummaryRowPerTicker ==
    (rfa.pc \in {"returned", "raised"} /\ results # <<>>) =>
      /\ {row.ticker : row \in rfa.summary} = {results[i].ticker : i \in 1..Len(results)}
      /\ \A r1, r2 \in rfa.summary : r1.ticker = r2.ticker => r1 = r2
      /\ \A row \in rfa.summary :
           LET idx == {i \in 1..Len(results) : results[i].ticker = row.ticker}
           IN  /\ row.impact_score = MeanOver(results, idx, "impact_score")
               /\ row.confidence = MeanOver(results, idx, "confidence")

(***************************************************************************)
(* SpecSector: the sector aggregates of the dashboard, update_sector_chart *)
(* and update_sector_analysis with create_sector_analysis_card, computed   *)
(* from the records of the analysis-data store.  Scores are in tenths and  *)
(* chosen so that every mean of the model is a whole number of tenths.     *)
(***************************************************************************)

MaxEntities == 3

\* What the identity section of a company gives for sector_industry, and
\* the verdict of its analysis.
Entities ==
    [sector_industry : {"absent", "null", "Tech", "Energy"},
     verdict : { [sentiment |-> "NEGATIVE", impact_score |-> -12],
                 [sentiment |-> "NEUTRAL", impact_score |-> 0],
                 [sentiment |-> "POSITIVE", impact_score |-> 12] }]

\* format_company_profile: identity.get('sector_industry', 'Unknown'); the
\* default stands for an absent key, a null stays None
SectorOf(e) ==
    IF e.sector_industry = "absent" THEN "Unknown"
    ELSE IF e.sector_industry = "null" THEN "None"
    ELSE e.sector_industry

\* the record of the entity in the analysis-data store
RecordOf(e) ==
    [sector |-> SectorOf(e), sentiment |-> e.verdict.sentiment,
     impact_score |-> e.verdict.impact_score]

\* pd.DataFrame(data): the rows of the frame, by position
Frame(es) == [i \in 1..Len(es) |-> RecordOf(es[i])]

\* df[df['sentiment'] != 'NEUTRAL'], as the positions kept
NonNeutral(df, rows) == { i \in rows : df[i].sentiment # "NEUTRAL" }

\* df[df['sector'] == sector]; no row equals None
OfSector(df, rows, sector) ==
    { i \in rows : sector # "None" /\ df[i].sector = sector }

\* update_sector_chart: df.groupby('sector')['impact_score'].mean(); the
\* rows whose sector is None belong to no group
update_sector_chart(data) ==
    LET df == Frame(data)
        groups == { df[i].sector : i \in DOMAIN df } \ {"None"}
    IN  [s \in groups |->
           [avg |-> MeanOver(df, OfSector(df, DOMAIN df, s), "impact_score"),
            count |-> Cardinality(OfSector(df, DOMAIN df, s))]]

\* create_sector_analysis_card: the NEUTRAL rows are removed, then the
\* mean, its bucket and the count; no card when no row is left
create_sector_analysis_card(df, rows) ==
    LET kept == NonNeutral(df, rows) IN
    IF kept = {} THEN [shown |-> FALSE, avg |-> 0, sentiment |-> "-", count |-> 0]
    ELSE [shown |-> TRUE,
          avg |-> MeanOver(df, kept, "impact_score"),
          sentiment |-> get_sentiment_from_score(MeanOver(df, kept, "impact_score")),
          count |-> Cardinality(kept)]

\* update_sector_analysis: the NEUTRAL rows are removed, the sector of the
\* filter is selected, one card per sector in sorted order; sorted()
\* cannot order None with a string
update_sector_analysis(data, selected_sector) ==
    LET df == Frame(data)
        nn == NonNeutral(df, DOMAIN df)
        rows == IF selected_sector # "all"
                THEN { i \in nn : df[i].sector = selected_sector } ELSE nn
        sectors == { df[i].sector : i \in rows }
    IN  IF data = <<>> THEN [kind |-> "return", cards |-> EmptyMap]
        ELSE IF "None" \in sectors /\ Cardinality(sectors) >= 2
        THEN [kind |-> "TypeError", cards |-> EmptyMap]
        ELSE [kind |-> "return",
              cards |-> [s \in { x \in sectors :
                                   create_sector_analysis_card(df, OfSector(df, rows, x)).shown }
                           |-> create_sector_analysis_card(df, OfSector(df, rows, s))]]

SectorInit ==
    /\ GwInit /\ UiInit /\ PoolInit /\ ExInit /\ RfaInit
    /\ BEDROCK_AVAILABLE = TRUE
    /\ call_args \in [data : UNION { [1..n -> Entities] : n \in 0..MaxEntities },
                      selected_sector : {"all", "Tech"}]
    /\ call_ret = [chart_done |-> FALSE, chart |-> EmptyMap,
                   kind |-> "none", cards |-> EmptyMap]

UpdateSectorChart ==
    /\ ~call_ret.chart_done
    /\ call_ret' = [call_ret EXCEPT !.chart_done = TRUE,
                                    !.chart = update_sector_chart(call_args.data)]
    /\ UNCHANGED <<gwvars, uivars, poolvars, exvars, rfavars, call_args>>

UpdateSectorAnalysis ==
    /\ call_ret.kind = "none"
    /\ LET r == update_sector_analysis(call_args.data, call_args.selected_sector)
       IN  call_ret' = [call_ret EXCEPT !.kind = r.kind, !.cards = r.cards]
    /\ UNCHANGED <<gwvars, uivars, poolvars, exvars, rfavars, call_args>>

SectorNext == UpdateSectorChart \/ UpdateSectorAnalysis

SpecSector == SectorInit /\ [][SectorNext]_vars

\* the sector buckets that count the entity at position i
BucketsHolding(i) ==
    { s \in DOMAIN call_ret.chart : SectorOf(call_args.data[i]) = s }
    \cup { s \in DOMAIN call_ret.cards : SectorOf(call_args.data[i]) = s }

\* C19 (SpecSector): an entity whose profile gives no sector value is
\* counted in no sector bucket, named or placeholder, of the sector chart
\* or of the sector cards, and the sector views are still produced.
C19_NoSectorMeansNoBucket ==
    /\ call_ret.kind \in {"none", "return"}
    /\ \A i \in 1..Len(call_args.data) :
         call_args.data[i].sector_industry \in {"absent", "null"}
            => BucketsHolding(i) = {}

\* C20 (SpecSector): the aggregate of a sector is the mean impact_score
\* over all the entities of that sector in the result set, NEUTRAL ones
\* included: every sector that has an entity has its aggregate, in the
\* chart and (with the filter on 'all') in the cards, with the mean and
\* the count over all of them.
C20_AggregateOverAllEntitiesOfSector ==
    LET df == Frame(call_args.data)
        all(s) == OfSector(df, DOMAIN df, s)
        named == { df[i].sector : i \in DOMAIN df } \ {"None"}
    IN  /\ call_ret.chart_done =>
             /\ DOMAIN call_ret.chart = named
             /\ \A s \in named :
                  /\ call_ret.chart[s].avg = MeanOver(df, all(s), "impact_score")
                  /\ call_ret.chart[s].count = Cardinality(all(s))
        /\ (call_ret.kind = "return" /\ call_args.selected_sector = "all") =>
             /\ DOMAIN call_ret.cards = named
             /\ \A s \in named :
                  /\ call_ret.cards[s].avg = MeanOver(df, all(s), "impact_score")
                  /\ call_ret.cards[s].count = Cardinality(all(s))

(***************************************************************************)
(* SpecValidate: validate_regulatory_document of regulatory_utils.py, on   *)
(* texts given character by character.  "." is a character that occurs in *)
(* no keyword.                                                             *)
(***************************************************************************)

MaxPad == 60

\* the entries of REGULATORY_KEYWORDS that the texts of the model can hold
REGULATORY_KEYWORDS ==
    { <<"a", "c", "t">>, <<"l", "a", "w">>,
      <<"d", "i", "r", "e", "c", "t", "i", "v", "e">> }

\* str.lower() on one character
LowerChar(ch) ==
    CASE ch = "A" -> "a" [] ch = "C" -> "c" [] ch = "T" -> "t" [] ch = "L" -> "l"
      [] ch = "W" -> "w" [] ch = "D" -> "d" [] ch = "I" -> "i" [] ch = "R" -> "r"
      [] ch = "E" -> "e" [] ch = "V" -> "v" [] OTHER -> ch

\* text.lower()
lower(text) == [i \in 1..Len(text) |-> LowerChar(text[i])]

\* keyword in text
Contains(text, keyword) ==
    \E i \in 0..(Len(text) - Len(keyword)) :
        SubSeq(text, i + 1, i + Len(keyword)) = keyword

\* Mutation of validate_document_internal: the text is not lower-cased.
validate_document_internal_CaseSensitive(text) ==
    IF text = <<>> \/ Len(text) < MIN_DOCUMENT_LENGTH
    THEN [is_valid |-> FALSE, message |-> "too_short"]
    ELSE LET matches == Cardinality({k \in REGULATORY_KEYWORDS : Contains(text, k)})
         IN  IF matches < MIN_KEYWORD_MATCHES
             THEN [is_valid |-> FALSE, message |-> "too_few_keywords"]
             ELSE [is_valid |-> TRUE, message |-> "validated"]

\* regulatory_utils.validate_regulatory_document, which app.py imports as
\* validate_document_internal: the pair (is_valid, message)
validate_document_internal(text) ==
    IF text = <<>> \/ Len(text) < MIN_DOCUMENT_LENGTH
    THEN [is_valid |-> FALSE, message |-> "too_short"]
    ELSE LET text_lower == lower(text)
             matches == Cardinality({k \in REGULATORY_KEYWORDS : Contains(text_lower, k)})
         IN  IF matches < MIN_KEYWORD_MATCHES
             THEN [is_valid |-> FALSE, message |-> "too_few_keywords"]
             ELSE [is_valid |-> TRUE, message |-> "validated"]

Pad(n) == [i \in 1..n |-> "."]

\* words put into the texts: keywords in several cases, two keywords, a
\* keyword inside a longer word, and words that hold no keyword
Words ==
    { <<>>, <<"a", "c", "t">>, <<"A", "C", "T">>, <<"A", "c", "t">>,
      <<"L", "a", "W">>, <<"a", "c", ".", "t">>, <<"a", "c">>,
      <<"l", "a", "w", "A", "C", "T">>, <<"i", "m", "p", "a", "c", "t">>,
      <<"d", "i", "r", "e", "c", "t", "i", "v", "e">>,
      <<"D", "I", "R", "E", "C", "T", "I", "V", "E">> }

DocumentTexts ==
    { Pad(n) \o w \o Pad(m) : n \in 0..MaxPad, w \in Words, m \in {0, 140} }

ValidateInit ==
    /\ GwInit /\ UiInit /\ PoolInit /\ ExInit /\ RfaInit
    /\ BEDROCK_AVAILABLE = TRUE
    /\ call_args \in DocumentTexts
    /\ call_ret = NoCall

\* is_valid, _ = validate_document_internal(text)
ValidateDocument ==
    /\ call_ret.kind = "none"
    /\ call_ret' = [kind |-> "return", value |-> validate_document_internal(call_args)]
    /\ UNCHANGED <<gwvars, uivars, poolvars, exvars, rfavars, call_args>>

SpecValidate == ValidateInit /\ [][ValidateDocument]_vars

\* the keyword occurs in the text at some position, letter by letter
\* without regard to case
OccursIgnoringCase(text, keyword) ==
    \E i \in 0..(Len(text) - Len(keyword)) :
        \A j \in 1..Len(keyword) : LowerChar(text[i + j]) = LowerChar(keyword[j])

\* C21 (SpecValidate): a text shorter than MIN_DOCUMENT_LENGTH characters
\* is rejected whatever keywords it holds, and a text of at least that
\* length is accepted exactly when at least MIN_KEYWORD_MATCHES keywords of
\* the list occur in it as case-insensitive substrings.
C21_LengthThenKeywordGate ==
    call_ret.kind = "return" =>
      /\ Len(call_args) < MIN_DOCUMENT_LENGTH => ~call_ret.value.is_valid
      /\ Len(call_args) >= MIN_DOCUMENT_LENGTH =>
           (call_ret.value.is_valid <=>
              Cardinality({k \in REGULATORY_KEYWORDS : OccursIgnoringCase(call_args, k)})
                 >= MIN_KEYWORD_MATCHES)

\* a 200-character text holding DIRECTIVE once has been accepted, or a
\* 40-character text holding a keyword has been rejected
C21_Witness ==
    /\ call_ret.kind = "return"
    /\ \/ /\ Len(call_args) = 200
          /\ Contains(call_args, <<"D", "I", "R", "E", "C", "T", "I", "V", "E">>)
          /\ call_ret.value.is_valid
       \/ /\ Len(call_args) = 40
          /\ Contains(call_args, <<"a", "c", "t">>)
          /\ ~call_ret.value.is_valid

(***************************************************************************)
(* SpecScale: the impact_score and the confidence (reliability) that       *)
(* analyze_company_regulation_pair copies from the decoded object into the *)
(* record.  Numbers are counted in thousandths: 3000 is 3.0.               *)
(***************************************************************************)

\* the scale the prompt of each script asks the model to keep to
ScaleOf(v) == IF v = "app" THEN 3000 ELSE 2000

\* round(x, 2): the nearest hundredth, a tie going to the even one
Round2(x) ==
    LET q == x \div 10
        r == x % 10
    IN  IF r < 5 THEN q * 10
        ELSE IF r > 5 THEN (q + 1) * 10
        ELSE IF q % 2 = 0 THEN q * 10 ELSE (q + 1) * 10

\* the two numeric fields of the record: the dashboard rounds them, the
\* CLI analyzer copies them
RecordScores(v, analysis) ==
    IF v = "app"
    THEN [impact_score |-> Round2(analysis.impact_score),
          confidence |-> Round2(analysis.confidence)]
    ELSE [impact_score |-> analysis.impact_score,
          confidence |-> analysis.confidence]

\* numeric values a completion can carry in the two fields
ScaleInputs ==
    [variant : {"app", "run_analysis"},
     impact_score : {-5000, -3010, -3005, -3004, -3000, -2004, -2000, 0, 1234, 1235,
                     2000, 2004, 3000, 3004, 3006, 7000},
     confidence : {-100, 0, 500, 1000, 1004, 1500}]

ScaleInit ==
    /\ GwInit /\ UiInit /\ PoolInit /\ ExInit /\ RfaInit
    /\ BEDROCK_AVAILABLE = TRUE
    /\ call_args \in ScaleInputs
    /\ call_ret = NoCall

\* `if analysis:` holds, the record is built
BuildRecordScores ==
    /\ call_ret.kind = "none"
    /\ call_ret' = [kind |-> "record", value |-> RecordScores(call_args.variant, call_args)]
    /\ UNCHANGED <<gwvars, uivars, poolvars, exvars, rfavars, call_args>>

SpecScale == ScaleInit /\ [][BuildRecordScores]_vars

\* C22 (SpecScale): every record analyze_company_regulation_pair returns
\* has its impact_score inside the scale of its rubric (-3..+3 in the
\* dashboard, -2..+2 in the CLI analyzer) and its confidence inside [0, 1],
\* whatever numbers the decoded object carries in those fields.
C22_ScoresInsideScale ==
    call_ret.kind = "record" =>
      /\ 0 - ScaleOf(call_args.variant) <= call_ret.value.impact_score
      /\ call_ret.value.impact_score <= ScaleOf(call_args.variant)
      /\ 0 <= call_ret.value.confidence
      /\ call_ret.value.confidence <= 1000

(***************************************************************************)
(* SpecParse: parse_any_format of regulatory_utils.py followed by the      *)
(* validation gate of process_upload.  A text is given by what the gate    *)
(* reads of it (see Texts); an upload by the facts the parser branches on. *)
(***************************************************************************)

EmptyText == [len |-> 0, kw |-> 0]

\* An upload: whether `contents` has the part after the comma, whether
\* that part is base64, the extension of the filename, whether the body
\* is well formed for its format, the decoded text and the text the
\* format's parser extracts from a well-formed body.
Uploads ==
    [comma : BOOLEAN, b64 : {"valid", "invalid"},
     ext : {"pdf", "xml", "html", "txt", "docx"},
     body : {"well_formed", "malformed"},
     PDF_AVAILABLE : BOOLEAN,
     raw : Texts, extracted : Texts]

\* parse_pdf_document
parse_pdf_document(u) ==
    IF ~u.PDF_AVAILABLE THEN EmptyText
    ELSE IF u.body = "malformed" THEN EmptyText
    ELSE u.extracted

\* parse_xml_document: on ET.ParseError the content is returned as it came
parse_xml_document(u) ==
    IF u.body = "malformed" THEN u.raw ELSE u.extracted

\* Mutation of parse_any_format: an extension that is not known gives the
\* empty text.
parse_any_format_UnknownIsEmpty(u) ==
    IF ~u.comma THEN EmptyText
    ELSE IF u.b64 = "invalid" THEN EmptyText
    ELSE IF u.ext = "pdf" THEN parse_pdf_document(u)
    ELSE IF u.ext = "xml" THEN parse_xml_document(u)
    ELSE IF u.ext = "html" THEN u.extracted
    ELSE IF u.ext = "txt" THEN u.raw
    ELSE EmptyText

\* parse_any_format: IndexError of split(',')[1] and the error of
\* b64decode are caught and give ""; the bytes always decode (utf-8, else
\* latin-1); any extension other than pdf, xml, html gives the decoded text
parse_any_format(u) ==
    IF ~u.comma THEN EmptyText
    ELSE IF u.b64 = "invalid" THEN EmptyText
    ELSE IF u.ext = "pdf" THEN parse_pdf_document(u)
    ELSE IF u.ext = "xml" THEN parse_xml_document(u)
    ELSE IF u.ext = "html" THEN u.extracted
    ELSE u.raw

ParseInit ==
    /\ GwInit /\ UiInit /\ PoolInit /\ ExInit /\ RfaInit
    /\ BEDROCK_AVAILABLE = TRUE
    /\ call_args \in Uploads
    /\ call_ret = [kind |-> "none", text |-> EmptyText, is_valid |-> FALSE]

\* text = parse_document_text(contents, filename)
ParseAnyFormat ==
    /\ call_ret.kind = "none"
    /\ call_ret' = [call_ret EXCEPT !.kind = "parsed", !.text = parse_any_format(call_args)]
    /\ UNCHANGED <<gwvars, uivars, poolvars, exvars, rfavars, call_args>>

\* is_valid = validate_regulatory_document(text)
ValidateParsed ==
    /\ call_ret.kind = "parsed"
    /\ call_ret' = [call_ret EXCEPT !.kind = "validated",
                                    !.is_valid = validate_regulatory_document(call_ret.text)]
    /\ UNCHANGED <<gwvars, uivars, poolvars, exvars, rfavars, call_args>>

ParseNext == ParseAnyFormat \/ ValidateParsed

SpecParse == ParseInit /\ [][ParseNext]_vars

\* the payload is missing or is not base64, or the PDF cannot be read
Undecodable(u) ==
    \/ ~u.comma
    \/ u.b64 = "invalid"
    \/ u.ext = "pdf" /\ (u.body = "malformed" \/ ~u.PDF_AVAILABLE)

\* the payload decodes, and the extension is not known or the XML is
\* malformed
UnknownOrMalformed(u) ==
    /\ u.comma /\ u.b64 = "valid"
    /\ \/ u.ext = "docx"
       \/ u.ext = "xml" /\ u.body = "malformed"

\* C23, as stated (SpecParse): content whose format is unknown or that
\* cannot be decoded or parsed gives the empty text, and the gate rejects
\* the document.
C23_UnparsableGivesEmptyText ==
    ( /\ call_ret.kind # "none"
      /\ Undecodable(call_args) \/ UnknownOrMalformed(call_args) )
    => /\ call_ret.text = EmptyText
       /\ call_ret.kind = "validated" => ~call_ret.is_valid

\* C23, amended (SpecParse): a missing or undecodable payload and an
\* unreadable PDF give the empty text, which the gate rejects; an
\* unrecognised extension and malformed XML give the decoded text as it
\* is, which the gate judges by its length and keywords like any text.
C23_OnlyUndecodableGivesEmptyText ==
    call_ret.kind # "none" =>
      /\ Undecodable(call_args) =>
           /\ call_ret.text = EmptyText
           /\ call_ret.kind = "validated" => ~call_ret.is_valid
      /\ UnknownOrMalformed(call_args) =>
           /\ call_ret.text = call_args.raw
           /\ call_ret.kind = "validated" =>
                (call_ret.is_valid <=>
                   (call_args.raw.len >= MIN_DOCUMENT_LENGTH
                      /\ call_args.raw.kw >= MIN_KEYWORD_MATCHES))

\* a file of unknown extension whose decoded text passes the gate has been
\* accepted
C23_Witness ==
    /\ call_ret.kind = "validated"
    /\ call_args.ext = "docx" /\ UnknownOrMalformed(call_args)
    /\ call_ret.is_valid

(***************************************************************************)
(* Claims about the end of the dashboard batch                             *)
(***************************************************************************)

\* C24 (Spec): when the loop that consumes the completions stops early
\* (an exception leaves it), no task is cancelled: the runner hands
\* control back to process_upload only when every submitted task has run
\* to its end with an outcome, and process_upload goes on only after that.
C24_AbandonedBatchWaitsForTasks ==
    /\ runner = "raised" =>
         \A t \in Tasks : futures[t].state = "finished" /\ futures[t].ret # "-"
    /\ (ui.pc = "done" /\ ui.mode = "simulation_error") =>
         \A t \in Tasks : futures[t].state = "finished"

\* the loop stopped with tasks it had not taken, and one of them has made
\* its gateway call and finished before the runner gave control back
C24_Witness ==
    /\ runner = "raised"
    /\ \E t \in Tasks \ yielded :
         /\ futures[t].state = "finished"
         /\ futures[t].call.requests >= 1

(***************************************************************************)
(* Claims about the result list of the extraction batch                    *)
(***************************************************************************)

\* the results a task of the extraction can return: the success record
\* or an error result with success = False
ErrorResults == {"error_empty", "error_exception", "error_bedrock"}

\* C25 (SpecExtract): when extract_all_10k (either version) has left its
\* pool, the results list holds exactly one record per input file, each a
\* success record or an error result, and the printed success and failure
\* counts, taken from that list, count the successful files and sum to the
\* number of files whatever the shared progress counters hold.
C25_OneRecordPerFileAndCountsFromList ==
    runner \in {"returned", "raised"} =>
        /\ Len(results) = NumTasks
        /\ \A t \in Tasks : Cardinality({i \in 1..Len(results) : results[i] = t}) = 1
        /\ \A i \in 1..Len(results) :
              futures[results[i]].ret \in {"success"} \cup ErrorResults
        /\ ReportedSuccess = Cardinality({t \in Tasks : futures[t].ret = "success"})
        /\ ReportedSuccess + ReportedFailed = NumTasks
        /\ output_file.content = results

\* a finished v2 batch whose shared counters lost an increment
C25_Witness ==
    /\ runner = "returned"
    /\ version = "extract_10k_v2"
    /\ progress.success + progress.failed < NumTasks
    /\ ReportedFailed = NumTasks

\* the set of the records in the returned sequence, order put aside
ReturnedRecords == {results[i] : i \in 1..Len(results)}

\* C26 (Spec): what analyze_regulation_with_bedrock returns is fixed by
\* the tasks and the outcome of each task alone, not by the interleaving
\* or the completion order: it returns exactly when no task raised, and
\* the returned sequence then holds, once each and in any order, the
\* record of every task whose outcome is a record.
C26_ReturnedSetFixedByTaskOutcomes ==
    /\ runner = "returned" =>
         /\ ReturnedRecords =
               {t \in load_company_data(company_file) : futures[t].ret = "record"}
         /\ Cardinality(ReturnedRecords) = Len(results)
         /\ \A t \in load_company_data(company_file) :
               futures[t].ret \in {"record", "None"}
    /\ runner = "raised" =>
         \E t \in load_company_data(company_file) : futures[t].ret = "raise"

\* a returned batch whose records are not in submission order and one of
\* whose tasks gave no record
C26_Witness ==
    /\ runner = "returned"
    /\ Len(results) = 2
    /\ results[1] > results[2]
    /\ \E t \in Tasks : futures[t].ret = "None"

(***************************************************************************)
(* SpecInline: the cleaning written inline in call_bedrock of              *)
(* run_analysis.py, extract_10k.py and dashboard/app.py, beside            *)
(* clean_json_response of extract_10k_v2.py, on the same completion.       *)
(***************************************************************************)

\* The inline cleaning and the strip() of the json.loads argument: the two
\* tests on the leading marker are two `if`, the second sees what the
\* first left.
inline_cleaning(text) ==
    LET t1 == strip(text)
        t2 == IF startswith(t1, FenceJson) THEN SubSeq(t1, 8, Len(t1)) ELSE t1
        t3 == IF startswith(t2, Fence) THEN SubSeq(t2, 4, Len(t2)) ELSE t2
        t4 == IF endswith(t3, Fence) THEN SubSeq(t3, 1, Len(t3) - 3) ELSE t3
    IN  strip(t4)

\* A completion with up to two markers in front of the body.
DoubleCompletions ==
    [lead : {<<>>, <<" ">>}, opener : {<<>>, Fence, FenceJson},
     second : {<<>>, <<" ">>, Fence}, body : Bodies,
     closer : {<<>>, Fence}, trail : {<<>>, <<" ">>}]

DoubleTextOf(c) ==
    c.lead \o c.opener \o c.second \o c.body \o c.closer \o c.trail

InlineInit ==
    /\ GwInit /\ UiInit /\ PoolInit /\ ExInit /\ RfaInit
    /\ BEDROCK_AVAILABLE = TRUE
    /\ call_args \in DoubleCompletions
    /\ call_ret = [kind |-> "none", inline |-> <<>>, value |-> <<>>]

\* the cleaning of the three call_bedrock with the inline code
InlineCleaning ==
    /\ call_ret.kind = "none"
    /\ call_ret' = [call_ret EXCEPT !.kind = "inline",
                                    !.inline = inline_cleaning(DoubleTextOf(call_args))]
    /\ UNCHANGED <<gwvars, uivars, poolvars, exvars, rfavars, call_args>>

\* the cleaning of extract_10k_v2 on the same completion
CleanSameCompletion ==
    /\ call_ret.kind = "inline"
    /\ call_ret' = [call_ret EXCEPT !.kind = "both",
                                    !.value = clean_json_response(DoubleTextOf(call_args))]
    /\ UNCHANGED <<gwvars, uivars, poolvars, exvars, rfavars, call_args>>

InlineNext == InlineCleaning \/ CleanSameCompletion

SpecInline == InlineInit /\ [][InlineNext]_vars

\* C27 (SpecInline): on every raw completion the inline cleaning of
\* run_analysis.py, extract_10k.py and dashboard/app.py and
\* clean_json_response of extract_10k_v2.py hand the same string to the
\* JSON decoder.
C27_InlineAgreesWithCleanJsonResponse ==
    call_ret.kind = "both" => call_ret.inline = call_ret.value

(***************************************************************************)
(* SpecTwice: normalize_structure applied to its own output.               *)
(***************************************************************************)

TwiceInit ==
    /\ GwInit /\ UiInit /\ PoolInit /\ ExInit /\ RfaInit
    /\ BEDROCK_AVAILABLE = TRUE
    /\ call_args \in DecodedRecords
    /\ call_ret = [kind |-> "none", value |-> "-", again |-> NoCall]

\* first = normalize_structure(data)
NormalizeOnce ==
    /\ call_ret.kind = "none"
    /\ call_ret' = [kind |-> normalize_structure(call_args).kind,
                    value |-> normalize_structure(call_args).value,
                    again |-> NoCall]
    /\ UNCHANGED <<gwvars, uivars, poolvars, exvars, rfavars, call_args>>

\* second = normalize_structure(first)
NormalizeAgain ==
    /\ call_ret.kind = "return"
    /\ call_ret' = [call_ret EXCEPT !.kind = "twice",
                                    !.again = normalize_structure(call_ret.value)]
    /\ UNCHANGED <<gwvars, uivars, poolvars, exvars, rfavars, call_args>>

TwiceNext == NormalizeOnce \/ NormalizeAgain

SpecTwice == TwiceInit /\ [][TwiceNext]_vars

\* C28 (SpecTwice): normalize_structure applied to its own output returns
\* that output again, the flexible sections and every legacy field
\* included, for every decoded record whose sections are mappings or
\* absent.
C28_NormalizeIsIdempotent ==
    call_ret.kind = "twice" =>
        call_ret.again = [kind |-> "return", value |-> call_ret.value]

\* normalised twice: a record with region labels, an absent company_info
\* and a supplier field
C28_Witness ==
    /\ call_ret.kind = "twice"
    /\ call_args.geographic_revenue.keys = {"EMEA", "APAC"}
    /\ call_args.business_segments = Absent
    /\ "name" \in call_args.company_info.keys
    /\ "key_supplier_countries" \in call_args.supply_chain.keys

\* C29 (Spec): process_upload on a document that passed the validation
\* gate always ends completed with data: it returns the success outputs
\* with a non-empty data set, real or simulated, and the final progress
\* snapshot has the step 'completed' and completed = total = the number of
\* rows returned.
C29_ValidatedUploadEndsCompleted ==
    (ui.valid /\ ui.pc \in {"done", "raised"}) =>
        /\ ui.pc = "done"
        /\ ui.status = "success"
        /\ ui.data \in {"realtime", "simulated"}
        /\ ui.rows > 0
        /\ ui.progress_data =
              [step |-> "completed", completed |-> ui.rows, total |-> ui.rows]

(***************************************************************************)
(* SpecLoader: the two callbacks an upload triggers, show_loader_on_upload *)
(* and process_upload, and the two component properties both of them       *)
(* write, loader-container.style and progress-interval.disabled.  The      *)
(* browser sends one request per callback and applies the outputs of each  *)
(* response when it arrives.  call_args is the upload event with what      *)
(* decides the path of process_upload; call_ret holds the two properties   *)
(* and the state of each callback.                                         *)
(***************************************************************************)

\* the change of upload-document.contents: a document, or None
UploadEvents ==
    [contents : {"document", "None"}, text : Texts, tail : {"returns", "TypeError"}]

\* a callback that has not run yet
Triggered == [pc |-> "triggered", style |-> "-", disabled |-> TRUE]

\* the layout: the loader is hidden, the interval is disabled
LoaderInit ==
    /\ GwInit /\ UiInit /\ PoolInit /\ ExInit /\ RfaInit
    /\ BEDROCK_AVAILABLE = TRUE
    /\ call_args \in UploadEvents
    /\ call_ret = [loader_style |-> "none", interval_disabled |-> TRUE,
                   show_loader_on_upload |-> Triggered, process_upload |-> Triggered]

\* show_loader_on_upload(contents)
ShowLoaderOnUpload ==
    /\ call_ret.show_loader_on_upload.pc = "triggered"
    /\ call_ret' = [call_ret EXCEPT !.show_loader_on_upload =
                      IF call_args.contents # "None"
                      THEN [pc |-> "returned", style |-> "block", disabled |-> FALSE]
                      ELSE [pc |-> "returned", style |-> "none", disabled |-> TRUE]]
    /\ UNCHANGED <<gwvars, uivars, poolvars, exvars, rfavars, call_args>>

\* process_upload(contents, filename), by its outputs for the loader and
\* the interval: the same on the three returns; none when the sector
\* options raise
ProcessUpload ==
    /\ call_ret.process_upload.pc = "triggered"
    /\ call_ret' = [call_ret EXCEPT !.process_upload =
                      IF call_args.contents = "None"
                      THEN [pc |-> "returned", style |-> "none", disabled |-> TRUE]
                      ELSE IF ~validate_regulatory_document(call_args.text)
                      THEN [pc |-> "returned", style |-> "none", disabled |-> TRUE]
                      ELSE IF call_args.tail = "TypeError"
                      THEN [pc |-> "raised", style |-> "-", disabled |-> TRUE]
                      ELSE [pc |-> "returned", style |-> "none", disabled |-> TRUE]]
    /\ UNCHANGED <<gwvars, uivars, poolvars, exvars, rfavars, call_args>>

\* the response of a callback arrives: its outputs are written to the two
\* properties
Deliver(cb) ==
    /\ call_ret[cb].pc = "returned"
    /\ call_ret' = [call_ret EXCEPT ![cb].pc = "delivered",
                                    !.loader_style = call_ret[cb].style,
                                    !.interval_disabled = call_ret[cb].disabled]
    /\ UNCHANGED <<gwvars, uivars, poolvars, exvars, rfavars, call_args>>

LoaderNext ==
    \/ ShowLoaderOnUpload
    \/ ProcessUpload
    \/ \E cb \in {"show_loader_on_upload", "process_upload"} : Deliver(cb)

SpecLoader == LoaderInit /\ [][LoaderNext]_vars

\* C30 (SpecLoader): when the outputs of both callbacks of an uploaded
\* document have been delivered, in whichever order, the loader is hidden
\* and the progress interval is disabled.
C30_LoaderHiddenAfterProcessing ==
    ( /\ call_args.contents = "document"
      /\ call_ret.show_loader_on_upload.pc = "delivered"
      /\ call_ret.process_upload.pc = "delivered" ) =>
        /\ call_ret.loader_style = "none"
        /\ call_ret.interval_disabled = TRUE

=============================================================================
